---------------------------- MODULE Spec2Model ----------------------------
(***************************************************************************)
(* Model of the document extraction-and-normalization service of           *)
(* doc_classifier.py: the /classify-document pipeline (classification      *)
(* call, extraction call, reply parsing, date normalization, persistence)  *)
(* and the /update-field correction entry point, over the documents and    *)
(* fields tables declared in models.py.  The listing and retrieval         *)
(* entry points only read the tables and are left out.                     *)
(*                                                                         *)
(* Text is modelled by its structure.  A classification reply is a         *)
(* sequence of characters.  An extraction reply is a record saying how it  *)
(* is fenced and what its body decodes to.  A scalar JSON value or stored  *)
(* string is a record saying which shape the text has (a date written in   *)
(* one of the notations strptime is tried with, letters, other text, ...). *)
(***************************************************************************)
EXTENDS Integers, Sequences, FiniteSets, Bags, TLC

(***************************************************************************)
(* Bounds of the model.                                                    *)
(***************************************************************************)
\* Largest document id a correction request names.
MaxDocId == 2
\* Number of correction requests that may be between their query and
\* their commit at the same time.
MaxPending == 2
\* Number of requests (submissions and corrections) served in a behaviour.
MaxRequests == 2

(***************************************************************************)
(* Characters and classification replies (process_image_with_gemini).      *)
(***************************************************************************)
UPPER == <<"A","B","C","D","E","F","G","H","I","J","K","L","M",
           "N","O","P","Q","R","S","T","U","V","W","X","Y","Z">>
LOWER == <<"a","b","c","d","e","f","g","h","i","j","k","l","m",
           "n","o","p","q","r","s","t","u","v","w","x","y","z">>

Whitespace == {" ", "\n", "\t"}

\* str.lower() on one character.
LowerChar(c) ==
    IF \E i \in 1..Len(UPPER) : UPPER[i] = c
    THEN LOWER[CHOOSE i \in 1..Len(UPPER) : UPPER[i] = c]
    ELSE c

\* str.lower()
lower(s) == [i \in 1..Len(s) |-> LowerChar(s[i])]

RECURSIVE lstrip(_)
lstrip(s) == IF s # <<>> /\ Head(s) \in Whitespace THEN lstrip(Tail(s)) ELSE s

RECURSIVE rstrip(_)
rstrip(s) ==
    IF s # <<>> /\ s[Len(s)] \in Whitespace
    THEN rstrip(SubSeq(s, 1, Len(s) - 1))
    ELSE s

\* str.strip()
strip(s) == rstrip(lstrip(s))

passport       == <<"p","a","s","s","p","o","r","t">>
driver_license == <<"d","r","i","v","e","r","_","l","i","c","e","n","s","e">>
ead_card       == <<"e","a","d","_","c","a","r","d">>
unknown        == <<"u","n","k","n","o","w","n">>

DOCUMENT_TYPES == <<passport, driver_license, ead_card>>

InList(x, list) == \E i \in 1..Len(list) : list[i] = x

\* FinalType with the white space after the reply left in place.
FinalTypeLstripOnly(raw_text) ==
    LET document_type == lower(lstrip(raw_text))
    IN  IF InList(document_type, DOCUMENT_TYPES) THEN document_type ELSE unknown

\* Lines 126-133: the label for a reply text of the classification model.
FinalType(raw_text) ==
    LET raw_response  == strip(raw_text)
        document_type == lower(raw_response)
    IN  IF InList(document_type, DOCUMENT_TYPES) THEN document_type ELSE unknown

\* Reply texts the classification model may return.
ClassifyReplies ==
    { passport,
      <<"P","a","s","s","p","o","r","t">>,
      <<" ","P","A","S","S","P","O","R","T","\n">>,
      <<"p","a","s","s","p","o","r","t",".">>,
      <<"p","a","s","s"," ","p","o","r","t">>,
      driver_license,
      <<"D","r","i","v","e","r","_","L","i","c","e","n","s","e","\n">>,
      <<"d","r","i","v","e","r"," ","l","i","c","e","n","s","e">>,
      ead_card,
      <<"\t","E","A","D","_","c","a","r","d"," "," ">>,
      <<"e","a","d">>,
      unknown,
      <<>>,
      <<" ","\n">>,
      <<"I"," ","t","h","i","n","k"," ","i","t","'","s"," ","a"," ",
        "l","i","c","e","n","s","e">>,
      <<"p","a","s","s","p","o","r","t"," ","e","a","d","_","c","a","r","d">> }

(***************************************************************************)
(* Scalar values: JSON scalars of a reply and the strings held by the      *)
(* fields table.  t is the Python type; form is the shape of a string:     *)
(*   "dby"      day month-name year      "03 Oct 1955"   p=day   q=month   *)
(*   "bdy"      month-name day year      "Oct 03 1955"   p=month q=day     *)
(*   "iso"      dddd-dd-dd               "1955-10-03"    p=month q=day     *)
(*   "isoloose" year-month-day, a part   "1955-1-3"      p=month q=day     *)
(*              not two digits wide                                        *)
(*   "slash"    p/q/year                 "10/03/1955"                      *)
(*   "letters"  letters, blanks, - and ' only; p = length once stripped    *)
(*   "digits"   str() of the number p                                      *)
(*   "other"    any other non-empty text                                   *)
(*   "empty"    the empty string                                           *)
(*   "raw"      a whole extraction reply, p = its number in Replies        *)
(***************************************************************************)
Scalar(t, form, p, q, y) == [t |-> t, form |-> form, p |-> p, q |-> q, y |-> y]

Absent  == Scalar("absent", "", 0, 0, 0)
JNull   == Scalar("null", "", 0, 0, 0)
JNum(n) == Scalar("num", "", n, 0, 0)
\* a non-empty array or object met as the value of a key
JNested == Scalar("list", "", 0, 0, 0)
Str(form, p, q, y) == Scalar("str", form, p, q, y)
Letters(n) == Str("letters", n, 0, 0)
OtherText  == Str("other", 0, 0, 0)
EmptyStr   == Str("empty", 0, 0, 0)
RawText(i) == Str("raw", i, 0, 0)

\* Python truthiness of a scalar (line 242, line 290).
Truthy(v) ==
    CASE v.t = "str" -> v.form # "empty"
      [] v.t = "num" -> v.p # 0
      [] v.t = "list" -> TRUE
      [] OTHER       -> FALSE

\* str(value), line 287.
str(v) ==
    CASE v.t = "str"  -> v
      [] v.t = "num"  -> Str("digits", v.p, 0, 0)
      [] v.t = "list" -> OtherText                     \* "[...]", "{...}"
      [] OTHER        -> Str("letters", 4, 0, 0)      \* "None"

(***************************************************************************)
(* Calendar dates, as datetime.strptime accepts them.                      *)
(***************************************************************************)
IsLeap(y) == (y % 4 = 0 /\ y % 100 # 0) \/ y % 400 = 0

DaysIn(y, m) ==
    CASE m \in {4, 6, 9, 11} -> 30
      [] m = 2               -> IF IsLeap(y) THEN 29 ELSE 28
      [] OTHER               -> 31

ValidDate(y, m, d) ==
    /\ y \in 1..9999
    /\ m \in 1..12
    /\ d \in 1..DaysIn(y, m)

NoDate == [ok |-> FALSE, y |-> 0, m |-> 0, d |-> 0]
Date(y, m, d) == [ok |-> TRUE, y |-> y, m |-> m, d |-> d]

\* datetime.strptime(value, fmt): NoDate stands for the ValueError.
strptime(v, fmt) ==
    CASE fmt = "%d %b %Y" /\ v.form = "dby" /\ ValidDate(v.y, v.q, v.p)
            -> Date(v.y, v.q, v.p)
      [] fmt = "%b %d %Y" /\ v.form = "bdy" /\ ValidDate(v.y, v.p, v.q)
            -> Date(v.y, v.p, v.q)
      [] fmt = "%Y-%m-%d" /\ v.form \in {"iso", "isoloose"} /\ ValidDate(v.y, v.p, v.q)
            -> Date(v.y, v.p, v.q)
      [] fmt = "%m/%d/%Y" /\ v.form = "slash" /\ ValidDate(v.y, v.p, v.q)
            -> Date(v.y, v.p, v.q)
      [] fmt = "%d/%m/%Y" /\ v.form = "slash" /\ ValidDate(v.y, v.q, v.p)
            -> Date(v.y, v.q, v.p)
      [] OTHER -> NoDate

\* .strftime("%Y-%m-%d")
strftime(dt) == Str("iso", dt.m, dt.d, dt.y)

\* Lines 181-187: the formats, in the order they are tried.
DATE_FORMATS == <<"%d %b %Y", "%b %d %Y", "%Y-%m-%d", "%m/%d/%Y", "%d/%m/%Y">>

RECURSIVE TryFormats(_, _)
TryFormats(v, i) ==
    IF i > Len(DATE_FORMATS) THEN v
    ELSE IF strptime(v, DATE_FORMATS[i]).ok
         THEN strftime(strptime(v, DATE_FORMATS[i]))
         ELSE TryFormats(v, i + 1)

\* Lines 177-194.  A value that is not a string makes strptime raise
\* TypeError, which the outer handler turns into the value itself.
convert_date_to_standard_format(date_str) ==
    IF date_str.t = "str" THEN TryFormats(date_str, 1) ELSE date_str

(***************************************************************************)
(* Field validation (FIELD_VALIDATIONS, validate_field_value).             *)
(***************************************************************************)
\* re.match(r"^\d{4}-\d{2}-\d{2}$", value)
IsoPattern(v) == v.form = "iso"

\* re.match(r"^[A-Za-z\s\-']+$", value)
NamePattern(v) == v.form = "letters"

\* datetime.now(): a calendar day and whether the clock is past midnight.
Nows ==
    { [y |-> 2026, m |-> 11, d |-> 2, past_midnight |-> TRUE],
      [y |-> 2026, m |-> 11, d |-> 2, past_midnight |-> FALSE] }

DayBefore(a, b) ==
    \/ a.y < b.y
    \/ a.y = b.y /\ a.m < b.m
    \/ a.y = b.y /\ a.m = b.m /\ a.d < b.d

SameDay(a, b) == a.y = b.y /\ a.m = b.m /\ a.d = b.d

\* strptime(value) < now and strptime(value) > now; strptime gives midnight.
BeforeNow(dt, now) == DayBefore(dt, now) \/ (SameDay(dt, now) /\ now.past_midnight)
AfterNow(dt, now)  == DayBefore(now, dt)

RuleKeys == {"date_of_birth", "issue_date", "expiration_date", "full_name", "country"}

\* key contains "date" (line 355)
DateInKey(key) ==
    key \in {"date_of_birth", "issue_date", "expiration_date", "card_expires_date"}

\* FIELD_VALIDATIONS[key]["validate"](value): "true", "false", or "ValueError"
\* when strptime raises.
FIELD_VALIDATIONS(key, value, now) ==
    CASE key = "date_of_birth" ->
            IF ~IsoPattern(value) THEN "false"
            ELSE IF ~strptime(value, "%Y-%m-%d").ok THEN "ValueError"
            ELSE IF BeforeNow(strptime(value, "%Y-%m-%d"), now) THEN "true" ELSE "false"
      [] key = "issue_date" ->
            IF IsoPattern(value) THEN "true" ELSE "false"
      [] key = "expiration_date" ->
            IF ~IsoPattern(value) THEN "false"
            ELSE IF ~strptime(value, "%Y-%m-%d").ok THEN "ValueError"
            ELSE IF AfterNow(strptime(value, "%Y-%m-%d"), now) THEN "true" ELSE "false"
      [] key \in {"full_name", "country"} ->
            IF NamePattern(value) /\ value.p >= 2 THEN "true" ELSE "false"

Valid == [is_valid |-> TRUE, error_message |-> "None"]
Invalid(msg) == [is_valid |-> FALSE, error_message |-> msg]

\* validate_field_value with the rule table never consulted.
AcceptAll(key, value, now) == Valid

\* Lines 345-359.

validate_field_value(key, value, now) ==
    IF key \notin RuleKeys THEN Valid
    ELSE LET r == FIELD_VALIDATIONS(key, value, now)
         IN  CASE r = "true"       -> Valid
               [] r = "ValueError" -> Invalid("ValueError")
               [] DateInKey(key)   -> Invalid("Invalid date format. Must be YYYY-MM-DD")
               [] OTHER            -> Invalid("Invalid format for key")

(***************************************************************************)
(* Python values a reply decodes to.  A dict is its members, a total       *)
(* function on Keys with Absent for a key it does not hold; a str or list  *)
(* is the set of keys (as substrings, as elements) it contains, which is   *)
(* what "key in value" reads.  The "document_content" member of a decoded  *)
(* object is kept apart in dc, a value of the same shape.                  *)
(***************************************************************************)
Keys == {"full_name", "date_of_birth", "expiration_date", "card_number", "raw_output"}

Members(f) == [k \in Keys |-> IF k \in DOMAIN f THEN f[k] ELSE Absent]
NoMembers  == [k \in Keys |-> Absent]

PyValue(kind, members, sub) == [kind |-> kind, members |-> members, sub |-> sub]
Dict(f)    == PyValue("dict", Members(f), {})
EmptyDict  == PyValue("dict", NoMembers, {})
NoValue    == PyValue("absent", NoMembers, {})
PyStr(sub) == PyValue("str", NoMembers, sub)
PyList(sub) == PyValue("list", NoMembers, sub)
PyNum      == PyValue("num", NoMembers, {})
PyNone     == PyValue("none", NoMembers, {})

\* a decoded JSON document: the value and, for an object, its document_content
Json(v, dc) == [kind |-> v.kind, members |-> v.members, sub |-> v.sub, dc |-> dc]
NoJson      == Json(NoValue, NoValue)

\* the value without the dc part (an object that has no document_content)
AsValue(j) == PyValue(j.kind, j.members, j.sub)

IsEmptyDict(v) == v.kind = "dict" /\ \A k \in Keys : v.members[k] = Absent

(***************************************************************************)
(* Extraction replies.  fence: "none", "json" (```json ... ```) or "bare"  *)
(* (``` ... ```); body: what the text inside decodes to, or "prose" /      *)
(* "empty" when it is no JSON.                                             *)
(***************************************************************************)
Text(fence, body) == [fence |-> fence, body |-> body]
Prose     == Json(PyValue("prose", NoMembers, {}), NoValue)
EmptyBody == Json(PyValue("empty", NoMembers, {}), NoValue)

FM1 == ( "full_name" :> Letters(8) @@ "date_of_birth" :> Str("dby", 3, 10, 1955)
         @@ "expiration_date" :> Str("slash", 10, 3, 2030) )
FM2 == ( "full_name" :> JNull @@ "date_of_birth" :> OtherText
         @@ "card_number" :> JNum(7) )
FM3 == ( "raw_output" :> OtherText @@ "full_name" :> Letters(8) )
FM4 == ( "date_of_birth" :> Str("slash", 13, 10, 1955)
         @@ "expiration_date" :> Str("iso", 2, 30, 2030) @@ "card_number" :> JNested )
FM5 == ( "date_of_birth" :> JNum(19551003) @@ "full_name" :> Letters(1)
         @@ "expiration_date" :> EmptyStr )
FM6 == ( "raw_output" :> JNum(5) )
FM7 == ( "date_of_birth" :> Str("isoloose", 1, 3, 1955)
         @@ "expiration_date" :> Str("bdy", 10, 3, 2030) )

\* Reply texts the extraction model may return.
Replies ==
    << Text("none", Json(EmptyDict, Dict(FM1))),          \* wrapped, as prompted
       Text("none", Json(Dict(FM1), NoValue)),            \* wrapper omitted
       Text("json", Json(EmptyDict, Dict(FM1))),          \* fenced
       Text("bare", Json(Dict(FM2), NoValue)),
       Text("none", Json(EmptyDict, Dict(FM2))),
       Text("none", Json(Dict(FM3), NoValue)),            \* a key named raw_output
       Text("none", Json(Dict(FM3), Dict(FM1))),
       Text("none", Json(Dict(FM6), NoValue)),
       Text("none", Json(EmptyDict, Dict(FM4))),
       Text("none", Json(EmptyDict, Dict(FM5))),
       Text("json", Json(Dict(FM7), NoValue)),
       Text("none", Json(EmptyDict, NoValue)),            \* {}
       Text("none", Json(EmptyDict, EmptyDict)),          \* {"document_content": {}}
       Text("none", Prose),
       Text("json", Prose),
       Text("none", EmptyBody),
       Text("none", Json(PyList({}), NoValue)),           \* [1, 2]
       Text("none", Json(PyStr({"raw_output"}), NoValue)),\* "no raw_output here"
       Text("none", Json(PyNum, NoValue)),                \* 5
       Text("none", Json(PyNone, NoValue)),               \* null
       Text("json", Json(PyList({}), NoValue)),
       Text("none", Json(EmptyDict, PyStr({}))),          \* {"document_content": "n/a"}
       Text("none", Json(EmptyDict, PyStr({"date_of_birth"}))),
       Text("none", Json(EmptyDict, PyList({}))),
       Text("none", Json(EmptyDict, PyNone)),
       Text("bare", Json(EmptyDict, PyStr({}))) >>

ReplyIds == 1..Len(Replies)

\* json.loads(text): ok = FALSE stands for JSONDecodeError.
Decoded(j) == [ok |-> TRUE, val |-> j]
DecodeError == [ok |-> FALSE, val |-> NoJson]

json_loads(text) ==
    IF text.fence = "none" /\ text.body.kind \notin {"prose", "empty"}
    THEN Decoded(text.body)
    ELSE DecodeError

\* text.replace("```json", "").replace("```", "").strip(), line 230
StripFences(text) == Text("none", text.body)

\* json.loads of a string met as a value: a whole reply, digits, or other text
json_loads_str(v) ==
    CASE v.form = "raw"    -> json_loads(StripFences(Replies[v.p]))
      [] v.form = "digits" -> Decoded(Json(PyNum, NoValue))
      [] OTHER             -> DecodeError

\* Lines 162-172: what extract_fields_with_gemini returns for reply number i.
extract_fields_with_gemini(i) ==
    LET parsed_json == json_loads(Replies[i])
    IN  IF parsed_json.ok THEN parsed_json.val
        ELSE Json(Dict("raw_output" :>
                        IF Replies[i].body.kind = "empty" THEN EmptyStr ELSE RawText(i)),
                  NoValue)

(***************************************************************************)
(* classify_document, lines 224-243: from the extraction result to the     *)
(* field map.  raised = TRUE stands for an exception that leaves the       *)
(* block (TypeError, AttributeError); the handler at line 307 turns it     *)
(* into a 500 response.                                                    *)
(***************************************************************************)
DATE_FIELDS == {"date_of_birth", "issue_date", "expiration_date", "card_expires_date"}

Parsed(field_data, raw) == [raised |-> FALSE, field_data |-> field_data, raw_json_output |-> raw]
ParseRaised == [raised |-> TRUE, field_data |-> NoValue, raw_json_output |-> EmptyStr]

\* parsed.get("document_content", parsed), fields.get("document_content", fields)
GetDocumentContent(j) == IF j.dc.kind # "absent" THEN j.dc ELSE AsValue(j)

\* Lines 229-235: the second decode, of the text under "raw_output".  Every
\* exception in it is caught and leaves the empty field map.
CleanedFieldData(raw) ==
    IF raw.t # "str" THEN EmptyDict                       \* no .replace: AttributeError
    ELSE LET parsed == json_loads_str(raw)
         IN  IF ~parsed.ok THEN EmptyDict
             ELSE IF parsed.val.kind # "dict" THEN EmptyDict   \* no .get
             ELSE GetDocumentContent(parsed.val)

\* Lines 224-237.
ParseFields(fields) ==
    CASE fields.kind \in {"num", "none"} -> ParseRaised         \* "raw_output" in 5
      [] fields.kind \in {"str", "list"} -> ParseRaised         \* fields[...] or fields.get
      [] fields.members["raw_output"] # Absent ->
            Parsed(CleanedFieldData(fields.members["raw_output"]),
                   fields.members["raw_output"])
      [] OTHER -> Parsed(GetDocumentContent(fields), EmptyStr)

Normalized(field_data) == [raised |-> FALSE, field_data |-> field_data]
NormalizeRaised(field_data) == [raised |-> TRUE, field_data |-> field_data]

\* Lines 240-243.
NormalizeDates(field_data) ==
    CASE field_data.kind \in {"num", "none"} -> NormalizeRaised(field_data)
      [] field_data.kind \in {"str", "list"} ->
            IF field_data.sub \cap DATE_FIELDS # {}
            THEN NormalizeRaised(field_data)                    \* field_data[field]
            ELSE Normalized(field_data)
      [] OTHER ->
            Normalized([field_data EXCEPT !.members =
                [k \in Keys |->
                    IF k \in DATE_FIELDS /\ @[k] # Absent /\ Truthy(@[k])
                    THEN convert_date_to_standard_format(@[k])
                    ELSE @[k]]])

(***************************************************************************)
(* The tables of models.py.  A documents row is its id and, where the      *)
(* mapped class has the attribute, its document_type; filename,            *)
(* content_type and file_blob are copied from the request and are not      *)
(* modelled.  A fields row is (document_id, key, value, is_corrected).     *)
(***************************************************************************)
\* models.py lines 11-17: the attributes of the mapped class Document.
Document == {"id", "filename", "content_type", "upload_time", "file_blob", "fields"}

\* Lines 246-251: the keyword arguments of Document(...).
DocumentKwargs == {"filename", "content_type", "file_blob", "document_type"}

\* The declarative constructor raises TypeError for a keyword that is no
\* attribute of the class.
ConstructorAccepts(attrs, kwargs) == kwargs \subseteq attrs

Field(document_id, key, value, is_corrected) ==
    [document_id |-> document_id, key |-> key, value |-> value,
     is_corrected |-> is_corrected]

\* A fields table that declares no primary key.
NoPrimaryKey(table, rows) == FALSE

\* models.py lines 22-23: (document_id, key) is the primary key of fields.

PrimaryKeyConflict(table, rows) ==
    \E r \in rows, f \in table : f.document_id = r.document_id /\ f.key = r.key

\* models.py line 22 declares ForeignKey("documents.id"); the engine of
\* lines 45-46 opens SQLite without PRAGMA foreign_keys, so the constraint
\* is not enforced.
ForeignKeyViolation(docs, rows) == FALSE

\* The id SQLite gives a new documents row: one more than the largest.
MaxId(docs) ==
    IF docs = {} THEN 0
    ELSE LET d == CHOOSE x \in docs : \A z \in docs : z.id <= x.id
         IN  d.id

NewId(docs) == MaxId(docs) + 1

\* Value as the Text column keeps it.
TextColumn(v) == str(v)

\* Lines 282-295: the rows classify_document adds for a field map.
FieldRows(doc_id, field_data, raw_json_output) ==
    { Field(doc_id, k, str(field_data.members[k]), 0) :
        k \in { x \in Keys : field_data.members[x] \notin {Absent, JNull} } }
    \cup
    IF Truthy(raw_json_output) /\ IsEmptyDict(field_data)
    THEN { Field(doc_id, "raw_output", TextColumn(raw_json_output), 0) }
    ELSE {}

(***************************************************************************)
(* State.                                                                  *)
(***************************************************************************)
VARIABLES
    Document_attrs, \* attributes of the mapped class Document (never changes)
    documents,      \* the documents table (committed rows)
    fields,         \* the fields table (committed rows)
    run,            \* the classify_document request: its position and locals
    pending,        \* update_field requests between their query and commit
    upd,            \* the latest response of update_field
    requests        \* number of requests served so far

vars == <<Document_attrs, documents, fields, run, pending, upd, requests>>

\* The locals of a classify_document request that has not started.
NoRun ==
    [ pc              |-> "idle",
      request         |-> 0,        \* which request this is, in order of arrival
      classify_calls  |-> <<>>,     \* outcomes of the classification calls made
      extract_calls   |-> <<>>,     \* outcomes of the extraction calls made
      classify_reply  |-> <<>>,     \* raw_response, until the next call
      doc_type        |-> <<>>,
      reply           |-> 0,        \* number of the extraction reply in Replies
      parsed          |-> NoValue,  \* field_data as line 237 leaves it
      field_data      |-> NoValue,  \* field_data as line 243 leaves it
      raw_json_output |-> EmptyStr,
      doc_id          |-> 0,        \* doc_record.id
      status          |-> 0,        \* HTTP status of the response, 0: none yet
      failed_at       |-> "" ]

NoUpdate == [status |-> 0, detail |-> ""]

\* The store is empty when first created (Base.metadata.create_all).
Init ==
    /\ Document_attrs = Document
    /\ documents = {}
    /\ fields = {}
    /\ run = NoRun
    /\ pending = EmptyBag
    /\ upd = NoUpdate
    /\ requests = 0

(***************************************************************************)
(* POST /classify-document (lines 196-309).                                *)
(***************************************************************************)
Raise(r, status, where) == [r EXCEPT !.pc = "done", !.status = status, !.failed_at = where]

\* Lines 198-215: the upload is read and decoded; an undecodable file is 400.
Submit ==
    /\ run.pc \in {"idle", "done"}
    /\ requests < MaxRequests
    /\ requests' = requests + 1
    /\ \E decodable \in BOOLEAN :
         LET r == [NoRun EXCEPT !.request = requests + 1]
         IN  run' = IF decodable THEN [r EXCEPT !.pc = "classify"]
                    ELSE Raise(r, 400, "file")
    /\ UNCHANGED <<Document_attrs, documents, fields, pending, upd>>

\* A handler that goes on with the label unknown when the call raises.
ClassificationFailedFallsBack(r) == [r EXCEPT !.pc = "extract", !.doc_type = unknown]

\* Lines 134-136: the classification call raised.

ClassificationFailed(r) == Raise(r, 500, "classification")

\* Lines 126-133: the classification call returned raw_text.
Classified(r, raw_text) ==
    [r EXCEPT !.pc = "extract", !.classify_reply = raw_text,
              !.doc_type = FinalType(raw_text)]

\* process_image_with_gemini (line 218)
ClassifyCall ==
    /\ run.pc = "classify"
    /\ \/ run' = ClassificationFailed(
                    [run EXCEPT !.classify_calls = Append(@, "failed")])
       \/ \E raw_text \in ClassifyReplies :
            run' = Classified(
                    [run EXCEPT !.classify_calls = Append(@, "returned")], raw_text)
    /\ UNCHANGED <<Document_attrs, documents, fields, pending, upd, requests>>

\* Lines 173-175: the extraction call raised.
ExtractionFailed(r) == Raise(r, 500, "extraction")

\* Lines 162-254 once the extraction call has returned reply number i:
\* decode, field map, dates, and the Document object.
Extracted(r, i, attrs) ==
    LET flds == extract_fields_with_gemini(i)
        p    == ParseFields(flds)
        n    == NormalizeDates(p.field_data)
        r1   == [r EXCEPT !.reply = i, !.classify_reply = <<>>]
        r2   == [r1 EXCEPT !.parsed = p.field_data,
                           !.raw_json_output = p.raw_json_output]
        r3   == [r2 EXCEPT !.field_data = n.field_data]
    IN  IF p.raised THEN Raise(r1, 500, "parse")
        ELSE IF n.raised THEN Raise(r2, 500, "normalize")
        ELSE IF ~ConstructorAccepts(attrs, DocumentKwargs)
             THEN Raise(r3, 500, "construct")
        ELSE [r3 EXCEPT !.pc = "commit_document"]

\* extract_fields_with_gemini (line 221) and lines 224-254
ExtractCall ==
    /\ run.pc = "extract"
    /\ \/ run' = ExtractionFailed(
                    [run EXCEPT !.extract_calls = Append(@, "failed")])
       \/ \E i \in ReplyIds :
            run' = Extracted(
                    [run EXCEPT !.extract_calls = Append(@, "returned")],
                    i, Document_attrs)
    /\ UNCHANGED <<Document_attrs, documents, fields, pending, upd, requests>>

\* Lines 257-280: the documents row is added and committed on its own.  The
\* row read back at line 265 holds doc_type, so lines 267-274 do not run.
CommitDocument ==
    /\ run.pc = "commit_document"
    /\ \/ /\ documents' = documents \cup
                {[id |-> NewId(documents), document_type |-> run.doc_type]}
          /\ run' = [run EXCEPT !.pc = "commit_fields", !.doc_id = NewId(documents)]
       \/ /\ run' = Raise(run, 500, "commit_document")      \* commit raised: rollback
          /\ UNCHANGED documents
    /\ UNCHANGED <<Document_attrs, fields, pending, upd, requests>>

\* Lines 282-303: the fields rows are added and committed.  A field map that
\* is no dict has no .items(); a commit that raises leaves the session, which
\* get_db closes, and the rows are dropped.
CommitFields ==
    /\ run.pc = "commit_fields"
    /\ LET rows == FieldRows(run.doc_id, run.field_data, run.raw_json_output)
       IN  IF run.field_data.kind # "dict"
           THEN /\ run' = Raise(run, 500, "persist")
                /\ UNCHANGED fields
           ELSE \/ /\ ~PrimaryKeyConflict(fields, rows)
                   /\ ~ForeignKeyViolation(documents, rows)
                   /\ fields' = fields \cup rows
                   /\ run' = [run EXCEPT !.pc = "done", !.status = 200]
                \/ /\ run' = Raise(run, 500, "commit_fields")
                   /\ UNCHANGED fields
    /\ UNCHANGED <<Document_attrs, documents, pending, upd, requests>>

(***************************************************************************)
(* PUT /update-field (lines 361-388).  The handler is a plain def, which   *)
(* the framework runs on a worker thread: requests run side by side, each  *)
(* with a session of its own, and one is seen here at two points, the      *)
(* query of line 368 and the commit of line 384.                           *)
(***************************************************************************)
CorrectionKeys == {"date_of_birth", "card_number"}

CorrectionValues ==
    { Str("iso", 10, 3, 1955),     \* "1955-10-03"
      Str("iso", 2, 30, 2030),     \* "2030-02-30": the pattern, but no date
      OtherText }

\* The response of update_field.
Response(status, detail) == [status |-> status, detail |-> detail]

HasRow(table, document_id, key) ==
    \E f \in table : f.document_id = document_id /\ f.key = key

\* A request that has passed line 368: what it was sent and whether the
\* query found the row.
Correction(document_id, key, value, found) ==
    [document_id |-> document_id, key |-> key, value |-> value, found |-> found]

\* Lines 364-381: validation, then the query for the row.
UpdateFieldBegin ==
    /\ requests < MaxRequests
    /\ requests' = requests + 1
    /\ \E document_id \in 1..MaxDocId, key \in CorrectionKeys,
          value \in CorrectionValues, now \in Nows :
         LET v == validate_field_value(key, value, now)
         IN  IF ~v.is_valid
             THEN /\ upd' = Response(400, v.error_message)
                  /\ UNCHANGED pending
             ELSE /\ BagCardinality(pending) < MaxPending
                  /\ pending' = pending (+) SetToBag(
                        {Correction(document_id, key, value,
                                    HasRow(fields, document_id, key))})
                  /\ UNCHANGED upd
    /\ UNCHANGED <<Document_attrs, documents, fields, run>>

\* Lines 371-372: the row found is given the value and the corrected flag.
UpdatedInPlace(table, p) ==
    { IF f.document_id = p.document_id /\ f.key = p.key
      THEN [f EXCEPT !.value = p.value, !.is_corrected = 1]
      ELSE f : f \in table }

\* Lines 375-381: a new row.
NewRow(p) == Field(p.document_id, p.key, p.value, 1)

\* Lines 383-388: the commit, or the rollback and the 500 response.
UpdateFieldCommit ==
    \E p \in BagToSet(pending) :
      /\ pending' = pending (-) SetToBag({p})
      /\ \/ /\ p.found
            /\ fields' = UpdatedInPlace(fields, p)
            /\ upd' = Response(200, "Field updated successfully")
         \/ /\ ~p.found
            /\ ~PrimaryKeyConflict(fields, {NewRow(p)})
            /\ ~ForeignKeyViolation(documents, {NewRow(p)})
            /\ fields' = fields \cup {NewRow(p)}
            /\ upd' = Response(200, "Field updated successfully")
         \/ /\ UNCHANGED fields
            /\ upd' = Response(500, "Failed to update field")
      /\ UNCHANGED <<Document_attrs, documents, run, requests>>

(***************************************************************************)
(* Specifications.                                                         *)
(*                                                                         *)
(* Spec is the program as written: the mapped class Document has no        *)
(* document_type attribute, Document(..., document_type=...) raises, and   *)
(* no request gets past line 251.                                          *)
(*                                                                         *)
(* SpecTyped is the same program over a Document class that carries the    *)
(* document_type attribute the handler assumes; it is what makes lines     *)
(* 257-303 run.                                                            *)
(***************************************************************************)
Next ==
    \/ Submit
    \/ ClassifyCall
    \/ ExtractCall
    \/ UpdateFieldBegin
    \/ UpdateFieldCommit

Spec == Init /\ [][Next]_vars

InitTyped ==
    /\ Document_attrs = Document \cup {"document_type"}
    /\ documents = {}
    /\ fields = {}
    /\ run = NoRun
    /\ pending = EmptyBag
    /\ upd = NoUpdate
    /\ requests = 0

NextTyped ==
    \/ Next
    \/ CommitDocument
    \/ CommitFields

SpecTyped == InitTyped /\ [][NextTyped]_vars

(***************************************************************************)
(* Properties.                                                             *)
(***************************************************************************)
Labels == {passport, driver_license, ead_card, unknown}

RowsOf(table, document_id, key) ==
    { f \in table : f.document_id = document_id /\ f.key = key }

BothCallsReturned ==
    run.classify_calls = <<"returned">> /\ run.extract_calls = <<"returned">>

\* C1: every submission whose classification and extraction calls both
\* return, and whose reply yields a field map, ends successfully with a
\* documents row carrying the label of the classification stage, one fields
\* row (value as a string, corrected flag unset unless a correction set it
\* since) per key of the date-normalized field map whose value is not null,
\* and no row written by the run for a key whose value is null.
C1_PipelinePersists ==
    (run.pc = "done" /\ BothCallsReturned /\ run.parsed.kind = "dict")
    => /\ run.status = 200
       /\ \E d \in documents :
            d.id = run.doc_id /\ d.document_type = run.doc_type
       /\ \A k \in Keys :
            LET v    == run.field_data.members[k]
                rows == RowsOf(fields, run.doc_id, k)
            IN  /\ v \notin {Absent, JNull}
                     => /\ Cardinality(rows) = 1
                        /\ \A f \in rows : f.is_corrected = 0 => f.value = str(v)
                /\ v = JNull => \A f \in rows : f.is_corrected = 1

C3_MalformedOutputNeverFatal ==
    (run.pc = "done" /\ run.extract_calls = <<"returned">>)
    => run.failed_at \notin {"parse", "normalize", "persist"}

\* The field map the parser is to give for a reply whose text, as it is or
\* with its fence markers stripped, decodes to a JSON object.
DecodesToObject(i) == Replies[i].body.kind = "dict"

ExpectedFieldMap(i) ==
    IF Replies[i].body.dc.kind # "absent"
    THEN Replies[i].body.dc
    ELSE AsValue(Replies[i].body)

\* C4: for a reply that decodes to a JSON object, the field map is the value
\* of "document_content" when the object has that key and the whole object
\* otherwise, whatever keys the object carries.
C4_FieldMapFromObject ==
    (run.reply # 0 /\ DecodesToObject(run.reply))
    => run.parsed = ExpectedFieldMap(run.reply)

\* C5: the store holds at most one fields row per (document id, key) ...
C5_OneRowPerPair ==
    \A f \in fields, g \in fields :
        (f.document_id = g.document_id /\ f.key = g.key) => f = g

\* ... and an accepted correction creates the row of a pair that has none,
\* with the value sent and the corrected flag set, or overwrites the row of
\* the pair in place, the number of rows unchanged.
C5_UpsertStep ==
    (requests' = requests /\ pending' # pending /\ upd'.status = 200)
    => LET p   == CHOOSE c \in BagToSet(pending) :
                        CopiesIn(c, pending') < CopiesIn(c, pending)
           row == Field(p.document_id, p.key, p.value, 1)
           old == RowsOf(fields, p.document_id, p.key)
       IN  IF old = {}
           THEN /\ fields' = fields \cup {row}
                /\ Cardinality(fields') = Cardinality(fields) + 1
           ELSE /\ fields' = (fields \ old) \cup {row}
                /\ Cardinality(fields') = Cardinality(fields)

\* C5: correction is an upsert that never duplicates rows.
C5_CorrectionIsUpsert == []C5_OneRowPerPair /\ [][C5_UpsertStep]_vars

C5_Witness ==
    \E p \in BagToSet(pending), f \in fields :
        /\ p.found
        /\ f.document_id = p.document_id /\ f.key = p.key
        /\ f.is_corrected = 1 /\ f.value # p.value

\* The rules of the Field Validator, stated on the shape of the value.
IsCalendarDate(v) == v.y \in 1..9999 /\ v.p \in 1..12 /\ v.q \in 1..DaysIn(v.y, v.p)

RuleAccepts(key, v, now) ==
    CASE key = "date_of_birth" ->
            /\ v.form = "iso" /\ IsCalendarDate(v)
            /\ \/ <<v.y, v.p, v.q>> = <<now.y, now.m, now.d>> /\ now.past_midnight
               \/ v.y < now.y
               \/ v.y = now.y /\ v.p < now.m
               \/ v.y = now.y /\ v.p = now.m /\ v.q < now.d
      [] key = "issue_date" -> v.form = "iso"
      [] key = "expiration_date" ->
            /\ v.form = "iso" /\ IsCalendarDate(v)
            /\ \/ v.y > now.y
               \/ v.y = now.y /\ v.p > now.m
               \/ v.y = now.y /\ v.p = now.m /\ v.q > now.d
      [] key \in {"full_name", "country"} -> v.form = "letters" /\ v.p >= 2
      [] OTHER -> TRUE

\* No value that fails the rule of its key is taken up by a correction ...
C6_OnlyValidAccepted ==
    /\ \A p \in BagToSet(pending) : \E now \in Nows : RuleAccepts(p.key, p.value, now)
    /\ \A f \in fields :
         f.is_corrected = 1 => \E now \in Nows : RuleAccepts(f.key, f.value, now)
    /\ upd.status = 400
         => upd.detail \in {"Invalid date format. Must be YYYY-MM-DD",
                            "Invalid format for key", "ValueError"}

\* ... and the request that is turned down answers 400 and changes no row.
C6_RejectStep ==
    (requests' = requests + 1 /\ run' = run /\ pending' = pending)
    => /\ upd'.status = 400
       /\ fields' = fields
       /\ documents' = documents

\* C6: a correction whose value fails validation for its key is rejected
\* with a validation error message and changes nothing in the store.
C6_RejectedCorrectionChangesNothing == []C6_OnlyValidAccepted /\ [][C6_RejectStep]_vars

C6_Witness ==
    /\ upd.status = 400
    /\ \E f \in fields : f.key = "date_of_birth" /\ f.is_corrected = 1

CallFailed(r) == r.classify_calls = <<"failed">> \/ r.extract_calls = <<"failed">>

\* After a failed call: one call at most was made of each kind, none after
\* the failure, and the request has ended in a service error with no
\* documents row of its own.
C7_AbortedRun ==
    /\ Len(run.classify_calls) <= 1
    /\ Len(run.extract_calls) <= 1
    /\ run.classify_calls = <<"failed">> => run.extract_calls = <<>>
    /\ CallFailed(run)
         => run.pc = "done" /\ run.status = 500 /\ run.doc_id = 0

\* The step in which a call fails writes nothing, and the only step the
\* request takes afterwards is the start of another submission.
C7_AbortStep ==
    /\ (run' # run /\ CallFailed(run'))
         => (documents' = documents /\ fields' = fields)
    /\ (run' # run /\ CallFailed(run))
         => (run'.classify_calls = <<>> /\ run'.extract_calls = <<>>)

\* C7: a failed external model call aborts the whole submission.
C7_FailedCallAborts == []C7_AbortedRun /\ [][C7_AbortStep]_vars

C7_Witness ==
    /\ run.extract_calls = <<"failed">>
    /\ run.classify_calls = <<"returned">>
    /\ fields # {}

\* s with the white space at both ends left out and the letters lowered
\* spells label.
SpellsLabel(s, label) ==
    \E i \in 0..Len(s), j \in 0..Len(s) :
        /\ i <= j
        /\ \A n \in 1..i : s[n] \in Whitespace
        /\ \A n \in (j + 1)..Len(s) : s[n] \in Whitespace
        /\ j - i = Len(label)
        /\ \A n \in 1..Len(label) : LowerChar(s[i + n]) = label[n]

\* C8: classification is total: the label is passport, driver_license or
\* ead_card exactly when the trimmed, lower-cased reply spells it and
\* unknown otherwise; the type handed on is one of the four labels and a
\* reply that returned never ends the request in a classification error.
C8_ClassificationTotal ==
    /\ run.pc = "extract"
         => /\ \A label \in {passport, driver_license, ead_card} :
                 run.doc_type = label <=> SpellsLabel(run.classify_reply, label)
            /\ run.doc_type = unknown
                 <=> \A label \in {passport, driver_license, ead_card} :
                        ~SpellsLabel(run.classify_reply, label)
    /\ run.classify_calls = <<"returned">>
         => run.doc_type \in Labels /\ run.failed_at # "classification"
    /\ \A d \in documents : d.document_type \in Labels

C8_Witness ==
    /\ run.pc = "extract"
    /\ run.classify_reply = <<" ","P","A","S","S","P","O","R","T","\n">>
    /\ run.doc_type = passport

C10_FieldsReferToDocuments ==
    \A f \in fields : \E d \in documents : d.id = f.document_id

=============================================================================
